---- MODULE Spec2Model ----
(***************************************************************************)
(* ClickUp task service: the custom-fields module                          *)
(* (TaskServiceCustomFields), the TaskService facade that delegates to it, *)
(* and the process entry point main().                                     *)
(*                                                                         *)
(* A call is one invocation of a facade method.  It runs synchronously up  *)
(* to its first await (logging, then the HTTP request), is suspended while *)
(* the request is with ClickUp, and resumes on the response.  The remote   *)
(* task store belongs to ClickUp; the service keeps no copy of it.         *)
(***************************************************************************)
EXTENDS Integers, Sequences, FiniteSets, TLC

\* Bounds of the model.
MaxCalls == 2
MaxFields == 2

\* Input domains.
Tasks == {"t1"}
OwnFieldIds == {"f1", "f2"}
Values == {"a", "b"}
FailStatuses == {404, 500}
LogLevels == {"written", "filtered"}

\* Property names every plain JavaScript object inherits from
\* Object.prototype; the `in` operator of getCustomFieldValue sees them.
ObjectPrototypeKeys == {"toString"}

FieldIds == OwnFieldIds \cup ObjectPrototypeKeys

VARIABLES mainPc, bootstrapCalls, bootstrapResult, exits, logLevel, remote,
          calls, nCalls, requests, responses

vars == <<mainPc, bootstrapCalls, bootstrapResult, exits, logLevel, remote,
          calls, nCalls, requests, responses>>

----------------------------------------------------------------------------
\* Values

NoArg == "-"

EmptyMap == [k \in {} |-> "a"]

Put(m, k, v) == [x \in (DOMAIN m) \cup {k} |-> IF x = k THEN v ELSE m[x]]

Range(s) == {s[i] : i \in DOMAIN s}

\* interface CustomFieldValue { id; value }
CustomFieldValue == [id : OwnFieldIds, value : Values]

RECURSIVE SeqsUpTo(_, _)
SeqsUpTo(S, n) ==
  IF n = 0 THEN {<<>>}
  ELSE LET shorter == SeqsUpTo(S, n - 1)
       IN shorter \cup {Append(s, x) : s \in {q \in shorter : Len(q) = n - 1}, x \in S}

\* A task's custom_fields as ClickUp returns it: absent (defined = FALSE),
\* or a mapping from field id to value.  The states a task starts in:
InitialCustomFields ==
  {[defined |-> FALSE, entries |-> EmptyMap],
   [defined |-> TRUE, entries |-> EmptyMap],
   [defined |-> TRUE, entries |-> Put(EmptyMap, "f1", "a")]}

Args(taskId, fieldId, value, customFields) ==
  [taskId |-> taskId, fieldId |-> fieldId, value |-> value,
   customFields |-> customFields]

NoArgs == Args(NoArg, NoArg, NoArg, <<>>)

None == <<"none">>

----------------------------------------------------------------------------
\* Task Core (task-core.js): logOperation, makeRequest, handleError, getTask

\* logOperation(name, inputs): records the inputs; what becomes of the entry
\* depends on the logger's level.  It returns normally either way.
LogOperation(name, inputs) == <<"log", name, inputs, logLevel>>

\* makeRequest(fn): runs fn, which issues the HTTP request, once; it neither
\* repeats nor queues it.
MakeRequest(request) == <<request>>

\* The error makeRequest raises for a non-2xx response: it carries the
\* status code, and its kind is NotFound for 404 and Upstream otherwise.
MakeRequestError(resp) ==
  [kind |-> IF resp.status = 404 THEN "NotFound" ELSE "Upstream",
   msgs |-> << <<"Request failed with status code">> >>]

\* new Error(message)
NewError(message) == [kind |-> "Plain", msgs |-> <<message>>]

\* handleError(error, message): wraps the failure with the message, keeping
\* the kind of an error that has one; a plain Error saying a field was not
\* found becomes a NotFound error.
HandleError(error, message) ==
  [kind |-> IF error.kind # "Plain" THEN error.kind
            ELSE IF message[Len(message)] = "not found on task" THEN "NotFound"
            ELSE "Upstream",
   msgs |-> Append(error.msgs, message)]

\* getTask(taskId): one GET of the full task.
GetTaskCall(taskId) == MakeRequest(<<"GET", taskId, NoArg, NoArg>>)

----------------------------------------------------------------------------
\* Error messages built by the custom-fields module

SetFieldMsg(fieldId) == <<"Failed to set custom field", fieldId, "value">>

SetValuesMsg == <<"Failed to set custom field values">>

GetValuesMsg == <<"Failed to get custom field values">>

GetFieldMsg(fieldId) == <<"Failed to get custom field", fieldId, "value">>

NotFoundMsg(fieldId) == <<"Custom field", fieldId, "not found on task">>

----------------------------------------------------------------------------
\* TaskServiceCustomFields.  Each method is split at its await: XCall is the
\* synchronous part up to the HTTP request, XResume the part that runs when
\* the response arrives.  Both yield the events the method produces (log
\* entries and HTTP requests, in program order), where the method stands
\* ("await", "returned", "threw"), the loop position and the outcome.

Step(events, pc, idx, ret) ==
  [events |-> events, pc |-> pc, idx |-> idx, ret |-> ret]

\* Faulty variant: the payload is kept in a field of the service that calls share, so
\* a call may send the value another call has just put there.
PayloadShared(value) ==
  IF \E r \in requests : r.method = "POST"
  THEN (CHOOSE r \in requests : r.method = "POST").value
  ELSE value

\* const payload = { value }
Payload(value) == value

\* setCustomFieldValue up to `await makeRequest(client.post(...))`
SetCustomFieldValueCall(taskId, fieldId, value) ==
  Step(<<LogOperation("setCustomFieldValue", <<taskId, fieldId, value>>)>>
         \o MakeRequest(<<"POST", taskId, fieldId, Payload(value)>>),
       "await", 0, None)

\* Faulty variant: a failed POST is reported by returning false.
SetCustomFieldValueResumeFalse(fieldId, resp) ==
  IF resp.ok
  THEN Step(<<>>, "returned", 0, <<"true">>)
  ELSE Step(<<>>, "returned", 0, <<"false">>)

\* Faulty variant: a failed POST is sent once more.
SetCustomFieldValueResumeRetry(fieldId, resp) ==
  IF resp.ok
  THEN Step(<<>>, "returned", 0, <<"true">>)
  ELSE Step(<<calls[resp.call].trace[resp.n]>>, "await", 0, None)

\* setCustomFieldValue after the POST: return true, or catch and rethrow
SetCustomFieldValueResume(fieldId, resp) ==
  IF resp.ok
  THEN Step(<<>>, "returned", 0, <<"true">>)
  ELSE Step(<<>>, "threw", 0,
            <<"error", HandleError(MakeRequestError(resp), SetFieldMsg(fieldId))>>)

\* Faulty variant: the updates are started together instead of one after the other.
SetCustomFieldValuesCallAllAtOnce(taskId, customFields) ==
  LET log == <<LogOperation("setCustomFieldValues", <<taskId, customFields>>)>>
      RECURSIVE all(_)
      all(i) == IF i > Len(customFields) THEN <<>>
                ELSE SetCustomFieldValueCall(taskId, customFields[i].id,
                                             customFields[i].value).events
                     \o all(i + 1)
  IN IF customFields = <<>>
     THEN Step(log, "returned", 0, <<"true">>)
     ELSE Step(log \o all(1), "await", 1, None)

\* setCustomFieldValues up to the first await of its loop
SetCustomFieldValuesCall(taskId, customFields) ==
  LET log == <<LogOperation("setCustomFieldValues", <<taskId, customFields>>)>>
  IN IF customFields = <<>>
     THEN Step(log, "returned", 0, <<"true">>)
     ELSE Step(log \o SetCustomFieldValueCall(taskId, customFields[1].id,
                                              customFields[1].value).events,
               "await", 1, None)

\* Faulty variant: a failed update is skipped and the loop goes on; only the last
\* field's failure reaches the caller.
SetCustomFieldValuesResumeSkipFailed(taskId, customFields, idx, resp) ==
  LET inner == SetCustomFieldValueResume(customFields[idx].id, resp)
  IN IF idx < Len(customFields)
     THEN Step(SetCustomFieldValueCall(taskId, customFields[idx + 1].id,
                                       customFields[idx + 1].value).events,
               "await", idx + 1, None)
     ELSE IF inner.pc = "threw"
     THEN Step(<<>>, "threw", idx,
               <<"error", HandleError(inner.ret[2], SetValuesMsg)>>)
     ELSE Step(<<>>, "returned", idx, <<"true">>)

\* setCustomFieldValues when the POST of customFields[idx] has answered
SetCustomFieldValuesResume(taskId, customFields, idx, resp) ==
  LET inner == SetCustomFieldValueResume(customFields[idx].id, resp)
  IN IF inner.pc = "threw"
     THEN Step(<<>>, "threw", idx,
               <<"error", HandleError(inner.ret[2], SetValuesMsg)>>)
     ELSE IF idx < Len(customFields)
     THEN Step(SetCustomFieldValueCall(taskId, customFields[idx + 1].id,
                                       customFields[idx + 1].value).events,
               "await", idx + 1, None)
     ELSE Step(<<>>, "returned", idx, <<"true">>)

\* Faulty variant: the log entry is written after the task has been requested.
GetCustomFieldValuesCallLogLast(taskId) ==
  Step(GetTaskCall(taskId) \o <<LogOperation("getCustomFieldValues", <<taskId>>)>>,
       "await", 0, None)

\* getCustomFieldValues up to `await this.core.getTask(taskId)`
GetCustomFieldValuesCall(taskId) ==
  Step(<<LogOperation("getCustomFieldValues", <<taskId>>)>> \o GetTaskCall(taskId),
       "await", 0, None)

\* Faulty variant: `|| {}` is missing, a task without custom fields yields undefined.
GetCustomFieldValuesResumeNoDefault(resp) ==
  IF resp.ok
  THEN Step(<<>>, "returned", 0,
            IF resp.body.defined THEN <<"map", resp.body.entries>>
            ELSE <<"undefined", EmptyMap>>)
  ELSE Step(<<>>, "threw", 0,
            <<"error", HandleError(MakeRequestError(resp), GetValuesMsg)>>)

\* getCustomFieldValues after getTask: `task.custom_fields || {}`
GetCustomFieldValuesResume(resp) ==
  IF resp.ok
  THEN Step(<<>>, "returned", 0,
            IF resp.body.defined THEN <<"map", resp.body.entries>>
            ELSE <<"map", EmptyMap>>)
  ELSE Step(<<>>, "threw", 0,
            <<"error", HandleError(MakeRequestError(resp), GetValuesMsg)>>)

\* fieldId in customFields: own keys and the keys of Object.prototype
In(fieldId, customFields) ==
  fieldId \in DOMAIN customFields \/ fieldId \in ObjectPrototypeKeys

\* customFields[fieldId]: an own value, else the inherited property
Lookup(customFields, fieldId) ==
  IF fieldId \in DOMAIN customFields THEN customFields[fieldId]
  ELSE "[Function: Object.prototype]"

\* getCustomFieldValue up to the await inside getCustomFieldValues
GetCustomFieldValueCall(taskId, fieldId) ==
  Step(<<LogOperation("getCustomFieldValue", <<taskId, fieldId>>)>>
         \o GetCustomFieldValuesCall(taskId).events,
       "await", 0, None)

\* getCustomFieldValue after getCustomFieldValues has settled
GetCustomFieldValueResume(fieldId, resp) ==
  LET inner == GetCustomFieldValuesResume(resp)
  IN IF inner.pc = "threw"
     THEN Step(<<>>, "threw", 0,
               <<"error", HandleError(inner.ret[2], GetFieldMsg(fieldId))>>)
     ELSE IF In(fieldId, inner.ret[2])
     THEN Step(<<>>, "returned", 0, <<"value", Lookup(inner.ret[2], fieldId)>>)
     ELSE Step(<<>>, "threw", 0,
               <<"error",
                 HandleError(HandleError(NewError(NotFoundMsg(fieldId)),
                                         NotFoundMsg(fieldId)),
                             GetFieldMsg(fieldId))>>)

\* The module method `op`, started on `args`.
ModuleCall(op, args) ==
  CASE op = "setCustomFieldValue" ->
         SetCustomFieldValueCall(args.taskId, args.fieldId, args.value)
    [] op = "setCustomFieldValues" ->
         SetCustomFieldValuesCall(args.taskId, args.customFields)
    [] op = "getCustomFieldValues" -> GetCustomFieldValuesCall(args.taskId)
    [] op = "getCustomFieldValue" ->
         GetCustomFieldValueCall(args.taskId, args.fieldId)

\* The module method `op`, resumed with the response it awaited.
ModuleResume(op, args, idx, resp) ==
  CASE op = "setCustomFieldValue" -> SetCustomFieldValueResume(args.fieldId, resp)
    [] op = "setCustomFieldValues" ->
         SetCustomFieldValuesResume(args.taskId, args.customFields, idx, resp)
    [] op = "getCustomFieldValues" -> GetCustomFieldValuesResume(resp)
    [] op = "getCustomFieldValue" -> GetCustomFieldValueResume(args.fieldId, resp)

----------------------------------------------------------------------------
\* TaskService (facade): the delegated custom field methods

Ops == {"setCustomFieldValue", "setCustomFieldValues",
        "getCustomFieldValues", "getCustomFieldValue"}

\* Faulty variant: getCustomFieldValue delegates to getCustomFieldValues.
FacadeDelegateWrongMethod(op, args) ==
  CASE op = "setCustomFieldValue" ->
         [op |-> "setCustomFieldValue",
          args |-> Args(args.taskId, args.fieldId, args.value, <<>>)]
    [] op = "setCustomFieldValues" ->
         [op |-> "setCustomFieldValues",
          args |-> Args(args.taskId, NoArg, NoArg, args.customFields)]
    [] op \in {"getCustomFieldValues", "getCustomFieldValue"} ->
         [op |-> "getCustomFieldValues",
          args |-> Args(args.taskId, NoArg, NoArg, <<>>)]

\* The call the facade method `op` makes on this.customFields.
FacadeDelegate(op, args) ==
  CASE op = "setCustomFieldValue" ->
         [op |-> "setCustomFieldValue",
          args |-> Args(args.taskId, args.fieldId, args.value, <<>>)]
    [] op = "setCustomFieldValues" ->
         [op |-> "setCustomFieldValues",
          args |-> Args(args.taskId, NoArg, NoArg, args.customFields)]
    [] op = "getCustomFieldValues" ->
         [op |-> "getCustomFieldValues",
          args |-> Args(args.taskId, NoArg, NoArg, <<>>)]
    [] op = "getCustomFieldValue" ->
         [op |-> "getCustomFieldValue",
          args |-> Args(args.taskId, args.fieldId, NoArg, <<>>)]

\* `return this.customFields.op(...)`: the facade settles as the module does.
FacadeReturn(moduleRet) == moduleRet

\* The argument lists a caller may pass to `op`.
Inputs(op) ==
  CASE op = "setCustomFieldValue" ->
         {Args(t, f, v, <<>>) : t \in Tasks, f \in OwnFieldIds, v \in Values}
    [] op = "setCustomFieldValues" ->
         {Args(t, NoArg, NoArg, cf) :
            t \in Tasks, cf \in SeqsUpTo(CustomFieldValue, MaxFields)}
    [] op = "getCustomFieldValues" ->
         {Args(t, NoArg, NoArg, <<>>) : t \in Tasks}
    [] op = "getCustomFieldValue" ->
         {Args(t, f, NoArg, <<>>) : t \in Tasks, f \in FieldIds}

----------------------------------------------------------------------------
\* State

IdleCall ==
  [op |-> "none", args |-> NoArgs, delegated |-> <<>>, pc |-> "idle", idx |-> 0,
   trace |-> <<>>, moduleRet |-> None, ret |-> None,
   before |-> [defined |-> FALSE, entries |-> EmptyMap], overlapped |-> {}]

\* The HTTP requests among `events`, which extend a trace of length `offset`.
RequestsOf(c, offset, events) ==
  {[call |-> c, n |-> offset + i, method |-> events[i][1], task |-> events[i][2],
    field |-> events[i][3], value |-> events[i][4]] :
     i \in {j \in DOMAIN events : events[j][1] \in {"POST", "GET"}}}

Init ==
  /\ mainPc = "start"
  /\ bootstrapCalls = 0
  /\ bootstrapResult = "pending"
  /\ exits = <<>>
  /\ logLevel \in LogLevels
  /\ remote \in [Tasks -> InitialCustomFields]
  /\ calls = [c \in 1..MaxCalls |-> IdleCall]
  /\ nCalls = 0
  /\ requests = {}
  /\ responses = {}

----------------------------------------------------------------------------
\* main()

\* Faulty variant: a failed bootstrap is attempted again instead of exiting.
MainCatchRestart == [pc |-> "start", exits |-> exits]

\* catch (error) { console.error(...); process.exit(1) }
MainCatch == [pc |-> "exited", exits |-> Append(exits, 1)]

\* main(): `await bootstrap()` is reached
MainStart ==
  /\ mainPc = "start"
  /\ mainPc' = "bootstrapping"
  /\ bootstrapCalls' = bootstrapCalls + 1
  /\ UNCHANGED <<bootstrapResult, exits, logLevel, remote, calls, nCalls,
                 requests, responses>>

\* bootstrap() resolves: main logs and returns, the server keeps running
BootstrapSucceeds ==
  /\ mainPc = "bootstrapping"
  /\ bootstrapResult' = "ok"
  /\ mainPc' = "running"
  /\ UNCHANGED <<bootstrapCalls, exits, logLevel, remote, calls, nCalls,
                 requests, responses>>

\* bootstrap() rejects: main's catch block runs
BootstrapFails ==
  /\ mainPc = "bootstrapping"
  /\ bootstrapResult' = "failed"
  /\ mainPc' = MainCatch.pc
  /\ exits' = MainCatch.exits
  /\ UNCHANGED <<bootstrapCalls, logLevel, remote, calls, nCalls,
                 requests, responses>>

----------------------------------------------------------------------------
\* Calls

\* The protocol layer invokes facade method `op` on `args`.
Invoke(op, args) ==
  /\ mainPc = "running"
  /\ nCalls < MaxCalls
  /\ LET c == nCalls + 1
         d == FacadeDelegate(op, args)
         step == ModuleCall(d.op, d.args)
     IN /\ calls' = [calls EXCEPT ![c] =
               [op |-> op, args |-> args, delegated |-> <<d>>, pc |-> step.pc,
                idx |-> step.idx, trace |-> step.events, moduleRet |-> step.ret,
                ret |-> FacadeReturn(step.ret), before |-> remote[args.taskId],
                overlapped |-> {b \in 1..nCalls : calls[b].pc = "await"}]]
        /\ requests' = requests \cup RequestsOf(c, 0, step.events)
  /\ nCalls' = nCalls + 1
  /\ UNCHANGED <<mainPc, bootstrapCalls, bootstrapResult, exits, logLevel,
                 remote, responses>>

NoBody == [defined |-> FALSE, entries |-> EmptyMap]

\* ClickUp answers request r with 2xx: a POST sets the field on the task,
\* a GET returns the task.
ServerOk(r) ==
  /\ r \in requests
  /\ requests' = requests \ {r}
  /\ IF r.method = "POST"
     THEN /\ remote' = [remote EXCEPT ![r.task] =
                 [defined |-> TRUE, entries |-> Put(@.entries, r.field, r.value)]]
          /\ responses' = responses \cup
                 {[call |-> r.call, n |-> r.n, ok |-> TRUE, status |-> 200,
                   body |-> NoBody]}
     ELSE /\ remote' = remote
          /\ responses' = responses \cup
                 {[call |-> r.call, n |-> r.n, ok |-> TRUE, status |-> 200,
                   body |-> remote[r.task]]}
  /\ UNCHANGED <<mainPc, bootstrapCalls, bootstrapResult, exits, logLevel,
                 calls, nCalls>>

\* ClickUp (or the network) fails request r: nothing is applied.
ServerFail(r, status) ==
  /\ r \in requests
  /\ requests' = requests \ {r}
  /\ responses' = responses \cup
        {[call |-> r.call, n |-> r.n, ok |-> FALSE, status |-> status,
          body |-> NoBody]}
  /\ UNCHANGED <<mainPc, bootstrapCalls, bootstrapResult, exits, logLevel,
                 remote, calls, nCalls>>

\* The awaited response reaches call c and its method continues.
Resume(resp) ==
  /\ resp \in responses
  /\ calls[resp.call].pc = "await"
  /\ responses' = responses \ {resp}
  /\ LET c == resp.call
         k == calls[c]
         d == k.delegated[1]
         step == ModuleResume(d.op, d.args, k.idx, resp)
         seen == Append(k.trace,
                        <<"resp", resp.n, resp.ok, resp.status, resp.body>>)
     IN /\ calls' = [calls EXCEPT ![c] =
               [k EXCEPT !.pc = step.pc, !.idx = step.idx,
                         !.trace = seen \o step.events,
                         !.moduleRet = step.ret,
                         !.ret = FacadeReturn(step.ret)]]
        /\ requests' = requests \cup RequestsOf(c, Len(seen), step.events)
  /\ UNCHANGED <<mainPc, bootstrapCalls, bootstrapResult, exits, logLevel,
                 remote, nCalls>>

Next ==
  \/ MainStart
  \/ BootstrapSucceeds
  \/ BootstrapFails
  \/ \E op \in Ops : \E args \in Inputs(op) : Invoke(op, args)
  \/ \E r \in requests : ServerOk(r)
  \/ \E r \in requests, status \in FailStatuses : ServerFail(r, status)
  \/ \E resp \in responses : Resume(resp)

Spec == Init /\ [][Next]_vars

----------------------------------------------------------------------------
\* What a call has done, read off its trace

CallIds == 1..MaxCalls

IsRequest(e) == e[1] \in {"POST", "GET"}

IsPost(e) == e[1] = "POST"

IsResponse(e) == e[1] = "resp"

IsLog(e) == e[1] = "log"

\* The HTTP requests call c has issued, in the order it issued them.
Http(c) == SelectSeq(calls[c].trace, IsRequest)

Posts(c) == SelectSeq(calls[c].trace, IsPost)

\* The responses call c has consumed, in order.
Resps(c) == SelectSeq(calls[c].trace, IsResponse)

Ended(c) == calls[c].pc \in {"returned", "threw"}

\* The requests of call c that are issued and not yet consumed by it.
InFlight(c) ==
  {r \in requests : r.call = c} \cup {r \in responses : r.call = c}

\* The requests the operation makes when nothing fails, in order.
Planned(op, args) ==
  CASE op = "setCustomFieldValue" ->
         << <<"POST", args.taskId, args.fieldId, args.value>> >>
    [] op = "setCustomFieldValues" ->
         [i \in 1..Len(args.customFields) |->
            <<"POST", args.taskId, args.customFields[i].id,
              args.customFields[i].value>>]
    [] op \in {"getCustomFieldValues", "getCustomFieldValue"} ->
         << <<"GET", args.taskId, NoArg, NoArg>> >>
    [] OTHER -> <<>>

IsPrefix(s, t) == Len(s) <= Len(t) /\ s = SubSeq(t, 1, Len(s))

\* The task's custom fields after the given fields were set on it in order.
RECURSIVE ApplyAll(_, _)
ApplyAll(cf, fields) ==
  IF fields = <<>> THEN cf
  ELSE ApplyAll([defined |-> TRUE,
                 entries |-> Put(cf.entries, fields[1].id, fields[1].value)],
                Tail(fields))

\* The error's messages mention the field.
NamesField(err, fieldId) ==
  \E i \in DOMAIN err.msgs : fieldId \in Range(err.msgs[i])

\* No call but c has set a field of c's task.
OnlyWriter(c) ==
  \A d \in CallIds \ {c} :
     \A i \in DOMAIN Posts(d) : Posts(d)[i][2] # calls[c].args.taskId

----------------------------------------------------------------------------
\* C1: when setCustomFieldValues ends in an error, the POST of some field K
\* was the first to fail: the POSTs issued are exactly those of fields 1..K
\* in input order, those of 1..K-1 succeeded and field K's failed, no request
\* is left in flight, the error names field K, and (no other call having
\* written the task) the task's custom fields are those it had when the call
\* began with fields 1..K-1 set on them in order -- fields 1..K-1 applied and
\* not rolled back, fields K..N not applied.
C1_PartialBatchFailure ==
  \A c \in CallIds :
    (calls[c].op = "setCustomFieldValues" /\ calls[c].pc = "threw") =>
      LET cf == calls[c].args.customFields
          K == Len(Posts(c))
      IN /\ K >= 1
         /\ Posts(c) = SubSeq(Planned(calls[c].op, calls[c].args), 1, K)
         /\ Http(c) = Posts(c)
         /\ Len(Resps(c)) = K
         /\ \A i \in 1..(K - 1) : Resps(c)[i][3]
         /\ ~Resps(c)[K][3]
         /\ InFlight(c) = {}
         /\ calls[c].ret[1] = "error"
         /\ NamesField(calls[c].ret[2], cf[K].id)
         /\ OnlyWriter(c) =>
              remote[calls[c].args.taskId] =
                ApplyAll(calls[c].before, SubSeq(cf, 1, K - 1))

\* A batch of two fields whose second POST failed after the first was applied.
C1_Witness ==
  \E c \in CallIds :
    /\ calls[c].op = "setCustomFieldValues"
    /\ calls[c].pc = "threw"
    /\ Len(Posts(c)) = 2
    /\ OnlyWriter(c)
    /\ remote[calls[c].args.taskId] # calls[c].before

\* C2: within one setCustomFieldValues call the POSTs go out one at a time in
\* input order: the POSTs issued so far are a prefix of the input list, each
\* POST after the first is issued only once every earlier POST has answered
\* with success, and at most one POST of the call is in flight.
C2_SequentialInOrder ==
  \A c \in CallIds :
    calls[c].op = "setCustomFieldValues" =>
      LET t == calls[c].trace
      IN /\ IsPrefix(Posts(c), Planned(calls[c].op, calls[c].args))
         /\ Cardinality(InFlight(c)) <= 1
         /\ Len(Posts(c)) - Len(Resps(c)) \in {0, 1}
         /\ \A i \in DOMAIN t :
              IsPost(t[i]) =>
                LET earlier == SubSeq(t, 1, i - 1)
                IN /\ Len(SelectSeq(earlier, IsPost))
                        = Len(SelectSeq(earlier, IsResponse))
                   /\ \A j \in 1..(i - 1) : IsResponse(t[j]) => t[j][3]

\* A batch whose second POST is in flight after the first succeeded.
C2_Witness ==
  \E c \in CallIds :
    /\ calls[c].op = "setCustomFieldValues"
    /\ Len(Posts(c)) = 2
    /\ Len(Resps(c)) = 1
    /\ Cardinality(InFlight(c)) = 1

----------------------------------------------------------------------------
\* Reference behaviour of a call, from its inputs and responses alone

\* What `task.custom_fields || {}` stands for.
MapOf(body) == IF body.defined THEN body.entries ELSE EmptyMap

Min(a, b) == IF a <= b THEN a ELSE b

\* Where a call on (op, args) stands once it has consumed `resps`, and the
\* requests it has issued by then.  Nothing here reads the log.
RefRun(op, args, resps) ==
  LET planned == Planned(op, args)
      n == Len(resps)
      failed == \E i \in 1..n : ~resps[i][3]
  IN [http |-> SubSeq(planned, 1,
                      IF failed THEN n ELSE Min(n + 1, Len(planned))),
      pc |-> IF failed THEN "threw"
             ELSE IF n < Len(planned) THEN "await"
             ELSE IF op = "getCustomFieldValue"
                     /\ ~In(args.fieldId, MapOf(resps[n][5]))
             THEN "threw"
             ELSE "returned"]

\* The inputs an operation logs.
LoggedInputs(op, args) ==
  CASE op = "setCustomFieldValue" -> <<args.taskId, args.fieldId, args.value>>
    [] op = "setCustomFieldValues" -> <<args.taskId, args.customFields>>
    [] op = "getCustomFieldValues" -> <<args.taskId>>
    [] op = "getCustomFieldValue" -> <<args.taskId, args.fieldId>>

Started(c) == calls[c].pc # "idle"

NoWrites == \A c \in CallIds : Posts(c) = <<>>

\* The ids in a list of fields, and the value the list gives an id last.
Ids(cf) == {cf[i].id : i \in DOMAIN cf}

LastValue(cf, f) ==
  cf[CHOOSE i \in DOMAIN cf :
       cf[i].id = f /\ \A j \in DOMAIN cf : cf[j].id = f => j <= i].value

----------------------------------------------------------------------------
\* C3: getCustomFieldValue, when the task was fetched and fieldId is not a
\* key of the task's custom-fields mapping, ends in an error of kind NotFound
\* and never returns.
C3_AbsentKeyIsNotFound ==
  \A c \in CallIds :
    ( /\ calls[c].op = "getCustomFieldValue"
      /\ Ended(c)
      /\ Len(Resps(c)) = 1
      /\ Resps(c)[1][3]
      /\ calls[c].args.fieldId \notin DOMAIN MapOf(Resps(c)[1][5]) )
    => /\ calls[c].pc = "threw"
       /\ calls[c].ret[1] = "error"
       /\ calls[c].ret[2].kind = "NotFound"

\* C4: setCustomFieldValue issues exactly one POST, to the task's field
\* endpoint and carrying the value; it returns true exactly when that POST
\* succeeds, and otherwise throws an error whose message names the field; it
\* has no other result.
C4_SetOneField ==
  \A c \in CallIds :
    calls[c].op = "setCustomFieldValue" =>
      /\ Http(c) = << <<"POST", calls[c].args.taskId, calls[c].args.fieldId,
                       calls[c].args.value>> >>
      /\ calls[c].pc \in {"await", "returned", "threw"}
      /\ calls[c].pc = "await" => Resps(c) = <<>> /\ Cardinality(InFlight(c)) = 1
      /\ Ended(c) => Len(Resps(c)) = 1 /\ InFlight(c) = {}
      /\ calls[c].pc = "returned" => Resps(c)[1][3] /\ calls[c].ret = <<"true">>
      /\ calls[c].pc = "threw" =>
           /\ ~Resps(c)[1][3]
           /\ calls[c].ret[1] = "error"
           /\ \E i \in DOMAIN calls[c].ret[2].msgs :
                calls[c].ret[2].msgs[i] = SetFieldMsg(calls[c].args.fieldId)

\* One setCustomFieldValue that returned true and one that threw.
C4_Witness ==
  \E c, d \in CallIds :
    /\ calls[c].op = "setCustomFieldValue" /\ calls[c].pc = "returned"
    /\ calls[d].op = "setCustomFieldValue" /\ calls[d].pc = "threw"

\* C5: no custom-field operation retries or goes on after a failed HTTP
\* call: the requests an operation issues are a prefix of the requests it
\* makes when nothing fails (one per input entry, each sent at most once), a
\* failed response is the last HTTP event of the operation, and the operation
\* has then ended in an error.
C5_NoRetry ==
  \A c \in CallIds :
    Started(c) =>
      LET t == calls[c].trace
      IN /\ IsPrefix(Http(c), Planned(calls[c].op, calls[c].args))
         /\ \A i \in DOMAIN t :
              (IsResponse(t[i]) /\ ~t[i][3]) =>
                /\ \A j \in DOMAIN t : j > i => ~IsRequest(t[j]) /\ ~IsResponse(t[j])
                /\ InFlight(c) = {}
                /\ calls[c].pc = "threw"
                /\ calls[c].ret[1] = "error"

\* C5 as first stated: besides the above, no operation sends a request for
\* the same (task, field) twice within one invocation.
C5_Original ==
  /\ C5_NoRetry
  /\ \A c \in CallIds :
       \A i, j \in DOMAIN Http(c) :
         i < j => <<Http(c)[i][2], Http(c)[i][3]>> # <<Http(c)[j][2], Http(c)[j][3]>>

\* A batch of two fields that ended in an error after its first POST failed.
C5_Witness ==
  \E c \in CallIds :
    /\ calls[c].op = "setCustomFieldValues"
    /\ Len(calls[c].args.customFields) = 2
    /\ Len(Http(c)) = 1
    /\ calls[c].pc = "threw"

\* C6: getCustomFieldValues fetches the task once; when the fetch succeeds it
\* returns the task's custom-fields mapping, the empty mapping when the task
\* has none (the mapping the remote task holds, when nothing writes to it);
\* when the fetch fails it throws and returns no mapping.  getCustomFieldValue
\* returns, for a key present, the value getCustomFieldValues maps it to.
C6_GetValues ==
  /\ \A c \in CallIds :
       calls[c].op = "getCustomFieldValues" =>
         /\ Http(c) = << <<"GET", calls[c].args.taskId, NoArg, NoArg>> >>
         /\ Ended(c) => Len(Resps(c)) = 1
         /\ calls[c].pc = "returned" =>
              /\ Resps(c)[1][3]
              /\ calls[c].ret = <<"map", MapOf(Resps(c)[1][5])>>
              /\ NoWrites =>
                   calls[c].ret = <<"map", MapOf(remote[calls[c].args.taskId])>>
         /\ calls[c].pc = "threw" =>
              ~Resps(c)[1][3] /\ calls[c].ret[1] = "error"
  /\ \A c \in CallIds :
       ( /\ calls[c].op = "getCustomFieldValue"
         /\ Ended(c)
         /\ Resps(c)[1][3]
         /\ calls[c].args.fieldId \in DOMAIN MapOf(Resps(c)[1][5]) )
       => calls[c].ret =
            <<"value", MapOf(Resps(c)[1][5])[calls[c].args.fieldId]>>
  /\ \A c, d \in CallIds :
       ( /\ calls[c].op = "getCustomFieldValues" /\ calls[c].pc = "returned"
         /\ calls[d].op = "getCustomFieldValue" /\ Ended(d)
         /\ calls[d].args.taskId = calls[c].args.taskId
         /\ Resps(d)[1][3]
         /\ NoWrites
         /\ calls[c].ret[1] = "map"
         /\ calls[d].args.fieldId \in DOMAIN calls[c].ret[2] )
       => calls[d].ret = <<"value", calls[c].ret[2][calls[d].args.fieldId]>>

\* getCustomFieldValues returned a mapping with a key, and getCustomFieldValue
\* returned for that key.
C6_Witness ==
  \E c, d \in CallIds :
    /\ calls[c].op = "getCustomFieldValues" /\ calls[c].pc = "returned"
    /\ calls[d].op = "getCustomFieldValue" /\ calls[d].pc = "returned"
    /\ NoWrites
    /\ calls[d].args.fieldId \in DOMAIN calls[c].ret[2]

\* C7: every operation first logs its name and inputs, and every HTTP
\* request is directly preceded by the log entry of the method that issues
\* it, so the log entry comes before the first HTTP call; and logging does not
\* steer the operation: where the call stands and the requests it has issued
\* are those its inputs and responses determine, whatever the logger did.
C7_LogFirst ==
  \A c \in CallIds :
    Started(c) =>
      LET t == calls[c].trace
      IN /\ Len(t) >= 1
         /\ IsLog(t[1])
         /\ t[1][2] = calls[c].op
         /\ t[1][3] = LoggedInputs(calls[c].op, calls[c].args)
         /\ \A i \in DOMAIN t :
              IsRequest(t[i]) =>
                /\ i > 1
                /\ IsLog(t[i - 1])
                /\ t[i - 1][2] = IF IsPost(t[i]) THEN "setCustomFieldValue"
                                 ELSE "getCustomFieldValues"
         /\ Http(c) = RefRun(calls[c].op, calls[c].args, Resps(c)).http
         /\ calls[c].pc = RefRun(calls[c].op, calls[c].args, Resps(c)).pc

\* A getCustomFieldValue call that returned while the logger dropped entries.
C7_Witness ==
  \E c \in CallIds :
    /\ calls[c].op = "getCustomFieldValue"
    /\ calls[c].pc = "returned"
    /\ logLevel = "filtered"
    /\ calls[c].trace[1][4] = "filtered"

\* C8: main calls bootstrap once and never again; the process is ended with
\* exit code 1 by main exactly when bootstrap failed, and main never calls
\* process.exit when bootstrap succeeded.
C8_ExitOnBootstrapFailure ==
  /\ bootstrapCalls <= 1
  /\ mainPc # "start" => bootstrapCalls = 1
  /\ bootstrapResult = "failed" => mainPc = "exited" /\ exits = <<1>>
  /\ bootstrapResult # "failed" => mainPc # "exited" /\ exits = <<>>
  /\ bootstrapResult = "ok" <=> mainPc = "running"

\* bootstrap failed and the process has exited.
C8_Witness == bootstrapResult = "failed" /\ mainPc = "exited"

\* C9: a facade method makes exactly one call, of the same-named method of
\* the customFields module with the same arguments in the same order, and
\* settles with that call's result or error; the HTTP calls are those of the
\* module method on these arguments.
C9_FacadeDelegates ==
  \A c \in CallIds :
    Started(c) =>
      /\ calls[c].delegated = << [op |-> calls[c].op, args |-> calls[c].args] >>
      /\ calls[c].ret = calls[c].moduleRet
      /\ Ended(c) <=> calls[c].ret # None
      /\ IsPrefix(Http(c), Planned(calls[c].op, calls[c].args))

\* A facade setCustomFieldValue call that returned.
C9_Witness ==
  \E c \in CallIds :
    calls[c].op = "setCustomFieldValue" /\ calls[c].pc = "returned"
       /\ calls[c].ret = <<"true">>

\* C10: concurrent setCustomFieldValues calls interact only through the
\* remote task: whatever the interleaving, each call's POSTs and its position
\* are those its own inputs and its own responses determine (own input order,
\* stop at own first failure); and when two calls have both returned, having
\* written disjoint field ids, and no third call wrote, every field holds the
\* value given by the call that wrote it.
C10_IndependentBatches ==
  /\ \A c \in CallIds :
       calls[c].op = "setCustomFieldValues" =>
         /\ Posts(c) = RefRun(calls[c].op, calls[c].args, Resps(c)).http
         /\ calls[c].pc = RefRun(calls[c].op, calls[c].args, Resps(c)).pc
  /\ \A c, d \in CallIds :
       ( /\ c # d
         /\ calls[c].op = "setCustomFieldValues" /\ calls[c].pc = "returned"
         /\ calls[d].op = "setCustomFieldValues" /\ calls[d].pc = "returned"
         /\ calls[c].args.taskId = calls[d].args.taskId
         /\ Ids(calls[c].args.customFields) \cap Ids(calls[d].args.customFields) = {}
         /\ \A e \in CallIds \ {c, d} : Posts(e) = <<>> )
       => \A f \in Ids(calls[c].args.customFields) :
            /\ remote[calls[c].args.taskId].defined
            /\ f \in DOMAIN remote[calls[c].args.taskId].entries
            /\ remote[calls[c].args.taskId].entries[f]
                 = LastValue(calls[c].args.customFields, f)

\* Two batches on disjoint fields, the second begun while the first was
\* awaiting a response, have both returned.
C10_Witness ==
  \E c, d \in CallIds :
    /\ c # d
    /\ calls[c].op = "setCustomFieldValues" /\ calls[c].pc = "returned"
    /\ calls[d].op = "setCustomFieldValues" /\ calls[d].pc = "returned"
    /\ Len(calls[c].args.customFields) = 2
    /\ Len(calls[d].args.customFields) = 2
    /\ Ids(calls[c].args.customFields) \cap Ids(calls[d].args.customFields) = {}
    /\ c \in calls[d].overlapped

====
